---- MODULE Spec2Model ----
(***************************************************************************)
(* Model of app.py: the persona registry PERSONAS, the memoized client     *)
(* factory get_llm, the prompt builder build_chain and generate_plan.      *)
(*                                                                         *)
(* Strings are sequences of tokens.  A token is either one character,     *)
(* written "U+hhhh" after its code point ("x" stands for any character     *)
(* that is not whitespace), or one fixed chunk of static text of the       *)
(* program (a persona's instruction, a line of the user template, the      *)
(* empty-input notice, the error prefix), written as an ASCII name.        *)
(*                                                                         *)
(* Streamlit runs every session's script on a thread of its own, and the   *)
(* value st.cache_resource holds is shared by all of them: a call of       *)
(* generate_plan is four steps (the empty-input test; build_chain; the     *)
(* prompt formatted and handed to the client; the client's answer and      *)
(* what generate_plan makes of it), and the steps of different sessions    *)
(* interleave.                                                             *)
(***************************************************************************)
EXTENDS Integers, Sequences, FiniteSets, TLC

\* ---------------------------------------------------------------- bounds
MaxCalls == 4

\* ------------------------------------------------------- program constants
TemplateIndent == 20
Temperature == 3

\* ----------------------------------------------------------------- inputs
\* the characters str.strip() removes: those for which str.isspace() holds
Whitespace ==
  {"U+0009", "U+000A", "U+000B", "U+000C", "U+000D", "U+001C", "U+001D",
   "U+001E", "U+001F", "U+0020", "U+0085", "U+00A0", "U+1680", "U+2000",
   "U+2001", "U+2002", "U+2003", "U+2004", "U+2005", "U+2006", "U+2007",
   "U+2008", "U+2009", "U+200A", "U+2028", "U+2029", "U+202F", "U+205F",
   "U+3000"}

\* the user texts the calls are made with: empty, whitespace only (a space;
\* an ideographic space and a form feed), and text with and without
\* whitespace around it
Texts ==
  { <<>>,
    <<"U+0020">>,
    <<"U+3000", "U+000C">>,
    <<"x">>,
    <<"U+0020", "x", "U+3000">> }

\* the persona keys the calls are made with: the two of the registry and
\* one that is not in it
Keys == {"A", "B", "C"}

\* the sessions whose scripts call generate_plan
Sessions == {"s1", "s2"}

\* ------------------------------------------------------------- exceptions
\* cls is the class the raised object is an instance of: "Exception" for
\* any subclass of Exception, "BaseException" for one that is not (such as
\* KeyboardInterrupt or SystemExit).
NoExc == [cls |-> "none", msg |-> <<>>]
ApiError == [cls |-> "Exception", msg |-> <<"api key missing">>]
Interrupt == [cls |-> "BaseException", msg |-> <<"interrupt">>]
Raisables == {ApiError, Interrupt}

\* --------------------------------------------------------------- responses
\* the exception the __str__ of a response raises
StrError == [cls |-> "Exception", msg |-> <<"str failed">>]

\* What chain.invoke can return: an object with a content attribute (a
\* message) or one without.  str(res) returns repr, or raises str_exc when
\* that is not NoExc.
NoRes == [has_content |-> FALSE, content |-> <<>>, repr |-> <<>>, str_exc |-> NoExc]
Responses ==
  { [has_content |-> TRUE,  content |-> <<"plan text">>, repr |-> <<"repr of message">>,
     str_exc |-> NoExc],
    [has_content |-> FALSE, content |-> <<>>,            repr |-> <<"repr of object">>,
     str_exc |-> NoExc],
    [has_content |-> TRUE,  content |-> <<"plan text">>, repr |-> <<>>,
     str_exc |-> StrError],
    [has_content |-> FALSE, content |-> <<>>,            repr |-> <<>>,
     str_exc |-> StrError] }

\* What constructing the client can do: return (NoExc) or raise.
ConstructOutcomes == {NoExc} \cup Raisables

\* What invoking the client can do: return a response or raise.
InvokeOutcomes ==
  {[exc |-> NoExc, res |-> r] : r \in Responses}
    \cup {[exc |-> e, res |-> NoRes] : e \in Raisables}

\* ----------------------------------------------------------------- strings
RECURSIVE lstrip(_)
lstrip(s) ==
  IF s = <<>> THEN s
  ELSE IF Head(s) \in Whitespace THEN lstrip(Tail(s)) ELSE s

RECURSIVE rstrip(_)
rstrip(s) ==
  IF s = <<>> THEN s
  ELSE IF s[Len(s)] \in Whitespace THEN rstrip(SubSeq(s, 1, Len(s) - 1)) ELSE s

strip(s) == rstrip(lstrip(s))

\* `not user_text.strip()` without the strip
is_empty_input_nostrip(s) == s = <<>>

\* `not user_text.strip()`
is_empty_input(s) == strip(s) = <<>>

RECURSIVE Spaces(_)
Spaces(n) == IF n = 0 THEN <<>> ELSE <<"U+0020">> \o Spaces(n - 1)

\* ---------------------------------------------------------------- registry
PERSONAS_INIT ==
  [k \in {"A", "B"} |->
     IF k = "A"
     THEN [title |-> <<"TITLE_A">>, system |-> <<"SYSTEM_A">>]
     ELSE [title |-> <<"TITLE_B">>, system |-> <<"SYSTEM_B">>]]

\* a lookup that falls back to the wrong entry
persona_get_wrong_default(reg, key) ==
  IF key \in DOMAIN reg THEN reg[key] ELSE reg["B"]

\* PERSONAS.get(persona_key, PERSONAS["A"])
persona_get(reg, key) ==
  IF key \in DOMAIN reg THEN reg[key] ELSE reg["A"]

\* ------------------------------------------------------------ user template
\* The triple-quoted literal of build_chain, one record per line; the line
\* after the last bullet holds only the indentation before the closing
\* quotes.
USER_TEMPLATE_RAW ==
  << [indent |-> TemplateIndent, kind |-> "lit",   text |-> "T_HEADER"],
     [indent |-> TemplateIndent, kind |-> "lit",   text |-> "T_USER_INPUT_LABEL"],
     [indent |-> TemplateIndent, kind |-> "slot",  text |-> "user_input"],
     [indent |-> 0,              kind |-> "blank", text |-> ""],
     [indent |-> TemplateIndent, kind |-> "lit",   text |-> "T_REQUIREMENTS_LABEL"],
     [indent |-> TemplateIndent, kind |-> "lit",   text |-> "T_REQ_CHRONOLOGICAL"],
     [indent |-> TemplateIndent, kind |-> "lit",   text |-> "T_REQ_BULLETS"],
     [indent |-> TemplateIndent, kind |-> "lit",   text |-> "T_REQ_GENERIC_NAMES"],
     [indent |-> TemplateIndent, kind |-> "lit",   text |-> "T_REQ_ASSUMPTIONS"],
     [indent |-> TemplateIndent, kind |-> "blank", text |-> ""] >>

Min(S) == CHOOSE m \in S : \A x \in S : m <= x

\* textwrap.dedent: whitespace-only lines become empty, and the margin
\* common to the other lines is removed.
dedent(lines) ==
  LET solid  == {i \in 1..Len(lines) : lines[i].kind # "blank"}
      margin == IF solid = {} THEN 0 ELSE Min({lines[i].indent : i \in solid})
  IN  [i \in 1..Len(lines) |->
        IF lines[i].kind = "blank"
        THEN [lines[i] EXCEPT !.indent = 0]
        ELSE [lines[i] EXCEPT !.indent = lines[i].indent - margin]]

\* The text of lines[i..], the slot replaced by value; every line but the
\* last ends in a newline.
RECURSIVE render(_, _, _)
render(lines, i, value) ==
  IF i > Len(lines) THEN <<>>
  ELSE LET l    == lines[i]
           body == IF l.kind = "slot" THEN value
                   ELSE IF l.kind = "lit" THEN <<l.text>> ELSE <<>>
           eol  == IF i < Len(lines) THEN <<"U+000A">> ELSE <<>>
       IN  Spaces(l.indent) \o body \o eol \o render(lines, i + 1, value)

\* the user template as build_chain passes it to from_messages
USER_TEMPLATE == dedent(USER_TEMPLATE_RAW)

\* a formatter that trims the value it substitutes
format_user_stripped(template, user_input) == render(template, 1, strip(user_input))

\* the f-string formatting of the user message: {user_input} := the value
format_user(template, user_input) == render(template, 1, user_input)

\* ------------------------------------------------------------------ client
NoHandle == [model |-> "none", temperature |-> 0, id |-> 0]

\* ChatOpenAI(model="gpt-4o-mini", temperature=0.3); temperature in tenths,
\* id tells one constructed object from another.
ChatOpenAI(id) == [model |-> "gpt-4o-mini", temperature |-> Temperature, id |-> id]

\* get_llm without the memoization
get_llm_uncached(cache, n, construct) ==
  IF construct # NoExc
  THEN [cache |-> cache, llm |-> NoHandle, exc |-> construct, built |-> 0]
  ELSE [cache |-> ChatOpenAI(n + 1), llm |-> ChatOpenAI(n + 1), exc |-> NoExc, built |-> 1]

\* get_llm under st.cache_resource: a cached handle is returned without
\* running the body; otherwise the body runs, and its value is stored only
\* if it returns.  The decorator holds its compute lock from the miss to
\* the store and looks the value up again under the lock, so the whole is
\* one step.  n is the number of handles constructed so far.
get_llm(cache, n, construct) ==
  IF cache # NoHandle
  THEN [cache |-> cache, llm |-> cache, exc |-> NoExc, built |-> 0]
  ELSE IF construct # NoExc
  THEN [cache |-> cache, llm |-> NoHandle, exc |-> construct, built |-> 0]
  ELSE [cache |-> ChatOpenAI(n + 1), llm |-> ChatOpenAI(n + 1), exc |-> NoExc, built |-> 1]

\* a prompt whose user template carries the persona's title
prompt_template_titled(persona) ==
  [system |-> persona.system,
   user   |-> dedent(<<[indent |-> TemplateIndent, kind |-> "lit", text |-> persona.title[1]]>>
                       \o USER_TEMPLATE_RAW)]

\* ChatPromptTemplate.from_messages([("system", ...), ("user", dedent(...))])
prompt_template(persona) ==
  [system |-> persona.system, user |-> USER_TEMPLATE]

\* build_chain with PERSONAS.setdefault in place of PERSONAS.get
build_chain_setdefault(persona_key, reg, cache, n, construct) ==
  LET persona == persona_get(reg, persona_key)
      g       == get_llm(cache, n, construct)
  IN  [PERSONAS |-> IF persona_key \in DOMAIN reg THEN reg
                    ELSE [k \in DOMAIN reg \cup {persona_key} |->
                            IF k \in DOMAIN reg THEN reg[k] ELSE reg["A"]],
       prompt |-> prompt_template(persona),
       llm |-> g.llm, cache |-> g.cache, exc |-> g.exc, built |-> g.built]

\* build_chain: the persona is looked up and the prompt built before
\* get_llm is called; the registry is only read.
build_chain(persona_key, reg, cache, n, construct) ==
  LET persona == persona_get(reg, persona_key)
      g       == get_llm(cache, n, construct)
  IN  [PERSONAS |-> reg,
       prompt |-> prompt_template(persona),
       llm |-> g.llm, cache |-> g.cache, exc |-> g.exc, built |-> g.built]

\* The messages the prompt hands to the client.  The system text has no
\* placeholder, so formatting leaves it as it is.
format_messages(prompt, user_input) ==
  << [role |-> "system", content |-> prompt.system],
     [role |-> "user",   content |-> format_user(prompt.user, user_input)] >>

\* chain.invoke({"user_input": user_text}) of prompt | llm, up to the
\* wait: the prompt is formatted and the client called with the messages.
chain_invoke_call(chain, user_input) ==
  [messages |-> format_messages(chain.prompt, user_input), calls |-> 1]

\* an invocation that calls the client a second time when it raises
chain_invoke_result_retry(calls, inv) ==
  [exc |-> inv.exc, res |-> inv.res,
   calls |-> IF inv.exc # NoExc THEN calls + 1 ELSE calls]

\* chain.invoke from the wait on: it returns what the client returned or
\* raises what the client raised, and calls the client no further.
chain_invoke_result(calls, inv) ==
  [exc |-> inv.exc, res |-> inv.res, calls |-> calls]

\* a normalization that always stringifies the response
normalize_str(res) ==
  IF res.str_exc # NoExc
  THEN [exc |-> res.str_exc, value |-> <<>>]
  ELSE [exc |-> NoExc, value |-> res.repr]

\* getattr(res, "content", str(res)): the default str(res) is an argument,
\* so it is evaluated first, whether res has a content or not, and what it
\* raises leaves the expression; then the content if there is one, the
\* default otherwise.
normalize(res) ==
  IF res.str_exc # NoExc
  THEN [exc |-> res.str_exc, value |-> <<>>]
  ELSE [exc |-> NoExc, value |-> IF res.has_content THEN res.content ELSE res.repr]

EMPTY_NOTICE == <<"EMPTY_INPUT_NOTICE">>
ERROR_PREFIX == <<"ERROR_PREFIX">>

\* an error string without the exception's text
error_string_fixed(e) == ERROR_PREFIX

\* the f-string of the except clause: prefix, then str(e)
error_string(e) == ERROR_PREFIX \o e.msg

\* `except Exception` catches e
caught(e) == e.cls = "Exception"

\* ----------------------------------------------------------- generate_plan
\* What a call has done so far: outcome "pending" while it runs, then
\* "returned" with result, or "raised" with the exception that left the
\* function.  get_llm_calls counts its calls of get_llm, built the handles
\* it constructed, invoked its calls of the client; llm is the handle it
\* got, messages what it handed to the client, and client tells what the
\* client did to it: nothing (at "none"), a construction that raised, or
\* the outcome of the invocation.
NoClient == [at |-> "none", exc |-> NoExc, res |-> NoRes]

NoDid ==
  [outcome |-> "pending", result |-> <<>>, raised |-> NoExc,
   get_llm_calls |-> 0, llm |-> NoHandle, built |-> 0,
   messages |-> <<>>, invoked |-> 0, client |-> NoClient]

NoPrompt == [system |-> <<>>, user |-> <<>>]

\* a session that has not called generate_plan
Idle ==
  [pc |-> "idle", user_text |-> <<>>, persona_key |-> "A",
   prompt |-> NoPrompt, did |-> NoDid]

\* `return value`: the call is over, its locals are gone
returned(c, did, result) ==
  [c EXCEPT !.pc = "done", !.prompt = NoPrompt,
            !.did = [did EXCEPT !.outcome = "returned", !.result = result]]

\* the except clause when it catches e, e leaving the function otherwise
handle(c, did, e) ==
  IF caught(e)
  THEN returned(c, did, error_string(e))
  ELSE [c EXCEPT !.pc = "done", !.prompt = NoPrompt,
                 !.did = [did EXCEPT !.outcome = "raised", !.raised = e]]

\* generate_plan without the empty-input test
generate_plan_enter_nocheck(user_text, persona_key) ==
  [Idle EXCEPT !.pc = "build", !.user_text = user_text, !.persona_key = persona_key]

\* generate_plan up to the try block: the empty-input test and its return
generate_plan_enter(user_text, persona_key) ==
  LET c == [Idle EXCEPT !.user_text = user_text, !.persona_key = persona_key]
  IN  IF is_empty_input(user_text)
      THEN returned(c, NoDid, EMPTY_NOTICE)
      ELSE [c EXCEPT !.pc = "build"]

\* chain = build_chain(persona_key): the session goes on to the
\* invocation, or to the except clause when get_llm raised
generate_plan_build(c, reg, cache, n, construct) ==
  LET b   == build_chain(c.persona_key, reg, cache, n, construct)
      did == [c.did EXCEPT !.get_llm_calls = 1, !.llm = b.llm, !.built = b.built,
                           !.client = IF b.exc # NoExc
                                      THEN [at |-> "construct", exc |-> b.exc, res |-> NoRes]
                                      ELSE NoClient]
  IN  [PERSONAS |-> b.PERSONAS, cache |-> b.cache, built |-> b.built,
       session |-> IF b.exc # NoExc
                   THEN handle(c, did, b.exc)
                   ELSE [c EXCEPT !.pc = "invoke", !.prompt = b.prompt, !.did = did]]

\* chain.invoke({"user_input": user_text}) entered: the client has the
\* messages and the call waits for its answer
generate_plan_invoke(c) ==
  LET r == chain_invoke_call([prompt |-> c.prompt, llm |-> c.did.llm], c.user_text)
  IN  [c EXCEPT !.pc = "wait",
                !.did = [c.did EXCEPT !.messages = r.messages, !.invoked = r.calls]]

\* res = chain.invoke(...) over: the return of the normal form of res, or
\* the except clause when the invocation or the normalization raised
generate_plan_answer(c, inv) ==
  LET r   == chain_invoke_result(c.did.invoked, inv)
      did == [c.did EXCEPT !.invoked = r.calls,
                           !.client = [at |-> "invoke", exc |-> r.exc, res |-> r.res]]
      n   == normalize(r.res)
  IN  IF r.exc # NoExc
      THEN handle(c, did, r.exc)
      ELSE IF n.exc # NoExc
      THEN handle(c, did, n.exc)
      ELSE returned(c, did, n.value)

\* ------------------------------------------------------------------- state
\* PERSONAS    the module-level registry
\* llm_cache   the value st.cache_resource holds for get_llm (NoHandle: none)
\* constructed how many client handles have been constructed
\* ncalls      how many calls of generate_plan have been made
\* call        for every session, its current or latest call of
\*             generate_plan: where it is, its arguments, and what it did
VARIABLES PERSONAS, llm_cache, constructed, ncalls, call

vars == <<PERSONAS, llm_cache, constructed, ncalls, call>>

Init ==
  /\ PERSONAS = PERSONAS_INIT
  /\ llm_cache = NoHandle
  /\ constructed = 0
  /\ ncalls = 0
  /\ call = [s \in Sessions |-> Idle]

\* Session s calls generate_plan(user_text, persona_key): the test of line
\* 96, which ends the call when the text is empty.
Call(s, user_text, persona_key) ==
  /\ call[s].pc \in {"idle", "done"}
  /\ ncalls < MaxCalls
  /\ ncalls' = ncalls + 1
  /\ call' = [call EXCEPT ![s] = generate_plan_enter(user_text, persona_key)]
  /\ UNCHANGED <<PERSONAS, llm_cache, constructed>>

\* Session s runs build_chain; constructing the client, if it comes to
\* that, does what construct says.
BuildChain(s, construct) ==
  /\ call[s].pc = "build"
  /\ \E d \in {generate_plan_build(call[s], PERSONAS, llm_cache, constructed, construct)} :
       /\ PERSONAS' = d.PERSONAS
       /\ llm_cache' = d.cache
       /\ constructed' = constructed + d.built
       /\ call' = [call EXCEPT ![s] = d.session]
  /\ UNCHANGED ncalls

\* Session s enters chain.invoke: the client is called with the messages.
Invoke(s) ==
  /\ call[s].pc = "invoke"
  /\ call' = [call EXCEPT ![s] = generate_plan_invoke(call[s])]
  /\ UNCHANGED <<PERSONAS, llm_cache, constructed, ncalls>>

\* The client answers session s, which waits in chain.invoke, with inv,
\* and generate_plan ends.
Answer(s, inv) ==
  /\ call[s].pc = "wait"
  /\ call' = [call EXCEPT ![s] = generate_plan_answer(call[s], inv)]
  /\ UNCHANGED <<PERSONAS, llm_cache, constructed, ncalls>>

Next ==
  \E s \in Sessions :
    \/ \E user_text \in Texts, persona_key \in Keys : Call(s, user_text, persona_key)
    \/ \E construct \in ConstructOutcomes : BuildChain(s, construct)
    \/ Invoke(s)
    \/ \E inv \in InvokeOutcomes : Answer(s, inv)

Spec == Init /\ [][Next]_vars

\* ------------------------------------------------------- claims: vocabulary
\* session s has a finished call
Done(s) == call[s].pc = "done"

\* the text is empty or whitespace only
Blank(text) == \A i \in 1..Len(text) : text[i] \in Whitespace

\* sub occurs in text
Contains(text, sub) ==
  \E i \in 1..(Len(text) - Len(sub) + 1) : SubSeq(text, i, i + Len(sub) - 1) = sub

\* get_llm gave the call of session s a client handle
GotHandle(s) == call[s].did.get_llm_calls = 1 /\ call[s].did.client.at # "construct"

\* get_llm or chain.invoke raised in the call of session s
ClientRaised(s) == call[s].did.client.exc # NoExc

\* the text of the user message around the input, as the source spells it
USER_PREFIX == <<"T_HEADER", "U+000A", "T_USER_INPUT_LABEL", "U+000A">>
USER_SUFFIX ==
  <<"U+000A", "U+000A", "T_REQUIREMENTS_LABEL", "U+000A", "T_REQ_CHRONOLOGICAL", "U+000A",
    "T_REQ_BULLETS", "U+000A", "T_REQ_GENERIC_NAMES", "U+000A", "T_REQ_ASSUMPTIONS", "U+000A">>

\* ---------------------------------------------------------------------- C1
\* C1: a call whose user_text is empty or whitespace only returns the
\* empty-input notice, whatever the persona key, and never invokes the
\* client.
C1_EmptyInputNotice ==
  \A s \in Sessions :
    (call[s].pc # "idle" /\ Blank(call[s].user_text)) =>
       /\ call[s].pc = "done"
       /\ call[s].did.outcome = "returned"
       /\ call[s].did.result = EMPTY_NOTICE
       /\ call[s].did.invoked = 0
       /\ call[s].did.messages = <<>>

C1_Witness ==
  \E s \in Sessions :
    /\ Done(s) /\ call[s].user_text = <<"U+3000", "U+000C">>
    /\ call[s].persona_key = "C"
    /\ call[s].did.result = EMPTY_NOTICE /\ call[s].did.invoked = 0

\* ---------------------------------------------------------------------- C2
\* C2 as stated: whenever get_llm or chain.invoke raises in a call with
\* non-empty input, the call returns a string that contains the
\* exception's text and nothing is raised to the caller.
C2_AnyRaiseIsReturned ==
  \A s \in Sessions :
    (Done(s) /\ ~Blank(call[s].user_text) /\ ClientRaised(s)) =>
       /\ call[s].did.outcome = "returned"
       /\ Contains(call[s].did.result, call[s].did.client.exc.msg)

\* C2 amended: whenever get_llm or chain.invoke raises an instance of
\* Exception in a call with non-empty input, the call returns a string
\* that contains the exception's text and nothing is raised to the caller;
\* an exception that is not an instance of Exception leaves the call.
C2_ExceptionIsReturned ==
  \A s \in Sessions :
    /\ (/\ Done(s) /\ ~Blank(call[s].user_text) /\ ClientRaised(s)
        /\ call[s].did.client.exc.cls = "Exception") =>
          /\ call[s].did.outcome = "returned"
          /\ call[s].did.raised = NoExc
          /\ Len(call[s].did.client.exc.msg) > 0
          /\ Contains(call[s].did.result, call[s].did.client.exc.msg)
    /\ (/\ Done(s) /\ ~Blank(call[s].user_text) /\ ClientRaised(s)
        /\ call[s].did.client.exc.cls # "Exception") =>
          /\ call[s].did.outcome = "raised"
          /\ call[s].did.raised = call[s].did.client.exc

C2_Witness ==
  \E s, t \in Sessions :
    /\ Done(s) /\ call[s].did.client = [at |-> "construct", exc |-> ApiError, res |-> NoRes]
    /\ call[s].did.result = ERROR_PREFIX \o ApiError.msg
    /\ Done(t) /\ call[t].did.client = [at |-> "invoke", exc |-> ApiError, res |-> NoRes]
    /\ call[t].did.result = ERROR_PREFIX \o ApiError.msg

\* ---------------------------------------------------------------------- C3
\* C3: the system message handed to the client is the instruction of the
\* persona named by the key when the key is A or B, and persona A's for
\* any other key; a key outside the registry does not make the call fail:
\* given a handle the call invokes the client (it waits for the answer or
\* is over), and when the client returns, so does the call.
C3_PersonaFallback ==
  \A s \in Sessions :
    (call[s].pc \in {"wait", "done"} /\ GotHandle(s)) =>
       /\ call[s].did.invoked = 1
       /\ call[s].did.messages[1].role = "system"
       /\ call[s].did.messages[1].content =
            (IF call[s].persona_key \in {"A", "B"}
             THEN PERSONAS_INIT[call[s].persona_key].system
             ELSE PERSONAS_INIT["A"].system)
       /\ ((Done(s) /\ call[s].did.client.exc = NoExc) => call[s].did.outcome = "returned")

C3_Witness ==
  \E s \in Sessions :
    /\ Done(s) /\ call[s].persona_key \notin {"A", "B"}
    /\ call[s].did.invoked = 1
    /\ call[s].did.messages[1].content = <<"SYSTEM_A">>
    /\ call[s].did.outcome = "returned"
    /\ call[s].did.result = <<"plan text">>

\* ---------------------------------------------------------------------- C4
\* the client returned a response to the finished call of session s
ClientReturned(s) ==
  Done(s) /\ call[s].did.client.at = "invoke" /\ call[s].did.client.exc = NoExc

C5_InputVerbatim ==
  \A s \in Sessions :
    call[s].did.invoked > 0 =>
       /\ Len(call[s].did.messages) = 2
       /\ call[s].did.messages[2].role = "user"
       /\ call[s].did.messages[2].content =
            USER_PREFIX \o call[s].user_text \o USER_SUFFIX

\* a call that waits for the client's answer
C5_Witness ==
  \E s \in Sessions :
    /\ call[s].pc = "wait" /\ call[s].did.invoked = 1
    /\ call[s].user_text = <<"U+0020", "x", "U+3000">>
    /\ call[s].did.messages[2].content =
         USER_PREFIX \o <<"U+0020", "x", "U+3000">> \o USER_SUFFIX

\* ---------------------------------------------------------------------- C6
\* C6: the messages a call with key A or B handed to the client, and the
\* messages the other of the two keys gives for the same user_text, have
\* the same length and the same roles in the same order and the same
\* user message; they differ in the system message.
OtherKey(k) == IF k = "A" THEN "B" ELSE "A"

MessagesFor(k, text) ==
  format_messages(build_chain(k, PERSONAS, llm_cache, constructed, NoExc).prompt, text)

C6_PersonaChangesSystemOnly ==
  \A s \in Sessions :
    (call[s].did.invoked > 0 /\ call[s].persona_key \in {"A", "B"}) =>
       LET mine  == call[s].did.messages
           other == MessagesFor(OtherKey(call[s].persona_key), call[s].user_text)
       IN  /\ Len(mine) = 2 /\ Len(other) = 2
           /\ \A i \in 1..2 : mine[i].role = other[i].role
           /\ mine[2] = other[2]
           /\ mine[1].content # other[1].content

\* two calls with the same text, one with key A and one with B, both
\* waiting for the client's answer
C6_Witness ==
  \E s, t \in Sessions :
    /\ call[s].pc = "wait" /\ call[s].did.invoked > 0 /\ call[s].persona_key = "A"
    /\ call[t].pc = "wait" /\ call[t].did.invoked > 0 /\ call[t].persona_key = "B"
    /\ call[s].user_text = call[t].user_text
    /\ call[s].did.messages[1].content = <<"SYSTEM_A">>
    /\ call[t].did.messages[1].content = <<"SYSTEM_B">>
    /\ call[s].did.messages[2] = call[t].did.messages[2]

\* ---------------------------------------------------------------------- C7
\* C7: no step constructs a second client handle; once a handle is cached
\* it stays cached, and a call that runs get_llm from then on gets that
\* handle and constructs none.
C7_Step ==
  /\ constructed' <= 1
  /\ llm_cache # NoHandle =>
       /\ llm_cache' = llm_cache
       /\ \A s \in Sessions :
            (call[s].pc = "build" /\ call'[s].pc # "build") =>
               /\ call'[s].did.get_llm_calls = 1
               /\ call'[s].did.built = 0
               /\ call'[s].did.llm = llm_cache

C7_HandleConstructedOnce == [][C7_Step]_vars

\* after three calls or more: one call constructed the handle, and a call
\* of the other session was given that handle and invoked the client
C7_Witness ==
  \E s, t \in Sessions :
    /\ s # t /\ ncalls >= 3 /\ constructed = 1
    /\ Done(s) /\ call[s].did.built = 1 /\ call[s].did.llm = llm_cache
    /\ Done(t) /\ call[t].did.built = 0 /\ call[t].did.llm = llm_cache
    /\ call[t].did.invoked = 1
    /\ llm_cache # NoHandle

\* ---------------------------------------------------------------------- C8
\* C8 as stated: every call with non-empty input invokes the client
\* exactly once.
C8_InvokedExactlyOnce ==
  \A s \in Sessions :
    (Done(s) /\ ~Blank(call[s].user_text)) => call[s].did.invoked = 1

\* C8 amended: a call invokes the client at most once at any point of its
\* run, and a finished call with non-empty input has invoked it exactly
\* once when get_llm gave it a handle, whether the invocation returned or
\* raised, and not at all when client construction raised.
C8_InvokedAtMostOnce ==
  \A s \in Sessions :
    /\ call[s].did.invoked <= 1
    /\ (Done(s) /\ ~Blank(call[s].user_text)) =>
         /\ GotHandle(s) => call[s].did.invoked = 1
         /\ ~GotHandle(s) => call[s].did.invoked = 0

C8_Witness ==
  \E s, t \in Sessions :
    /\ Done(s) /\ call[s].did.client = [at |-> "invoke", exc |-> ApiError, res |-> NoRes]
    /\ call[s].did.invoked = 1 /\ call[s].did.outcome = "returned"
    /\ Done(t) /\ call[t].did.client.at = "construct" /\ call[t].did.invoked = 0

\* ---------------------------------------------------------------------- C9
\* two finished calls with the same arguments to which the client did the
\* same ended the same
SameInSameOut(s, t) ==
  (/\ Done(s) /\ Done(t)
   /\ call[s].user_text = call[t].user_text
   /\ call[s].persona_key = call[t].persona_key
   /\ call[s].did.client = call[t].did.client) =>
     /\ call[s].did.outcome = call[t].did.outcome
     /\ call[s].did.result = call[t].did.result
     /\ call[s].did.raised = call[t].did.raised

\* C9: no step of a call changes the persona registry, and what a call
\* returns or raises is fixed by its arguments and by what the client did
\* to it: two calls that agree in these end the same, whatever calls came
\* before either.
C9_Step ==
  /\ PERSONAS' = PERSONAS
  /\ \A s, t \in Sessions : SameInSameOut(s, t)'

C9_OnlyHandleChanges == [][C9_Step]_vars

\* two calls with a key outside the registry, one that constructed the
\* handle and one that found it cached, and the registry as it was
C9_Witness ==
  \E s, t \in Sessions :
    /\ s # t /\ Done(s) /\ Done(t)
    /\ call[s].persona_key = "C" /\ call[t].persona_key = "C"
    /\ call[s].user_text = call[t].user_text
    /\ call[s].did.client = call[t].did.client
    /\ call[s].did.built = 1 /\ call[t].did.built = 0
    /\ call[s].did.result = call[t].did.result
    /\ call[s].did.invoked = 1
    /\ PERSONAS = PERSONAS_INIT

\* --------------------------------------------------------------------- C10
\* C10: a call whose user_text is empty or whitespace only is over with
\* its first step: it returns the notice without calling get_llm, and
\* that step neither constructs a handle nor touches the cache, so a
\* handle that was not constructed stays so.
C10_Step ==
  \A s \in Sessions :
    (/\ call[s].pc \in {"idle", "done"}
     /\ call'[s] # call[s]
     /\ Blank(call'[s].user_text)) =>
       /\ call'[s].pc = "done"
       /\ call'[s].did.get_llm_calls = 0
       /\ call'[s].did.built = 0
       /\ call'[s].did.outcome = "returned"
       /\ call'[s].did.result = EMPTY_NOTICE
       /\ llm_cache' = llm_cache
       /\ constructed' = constructed

C10_EmptyCheckFirst == [][C10_Step]_vars

\* a blank call returned the notice with no handle constructed, in a
\* process where constructing the client raises
C10_Witness ==
  \E s, t \in Sessions :
    /\ Done(s) /\ Blank(call[s].user_text) /\ Len(call[s].user_text) > 0
    /\ call[s].did.result = EMPTY_NOTICE
    /\ call[s].did.get_llm_calls = 0
    /\ llm_cache = NoHandle /\ constructed = 0
    /\ Done(t) /\ call[t].did.client = [at |-> "construct", exc |-> ApiError, res |-> NoRes]

====
